---- MODULE Spec2Model ----
(***************************************************************************)
(* Bitmask-DP route solver of android/app/src/main/cpp/solver.cpp.         *)
(*                                                                         *)
(* Times are the solver's float minutes, kept exactly as integer ticks of  *)
(* 1/TicksPerMinute minute, so that the truncation (int)arrival_minutes of *)
(* arrival_to_slot_index is a real conversion.  Arrays keep the source's   *)
(* 0-based indices; masks are integers and the bit tests are arithmetic.   *)
(***************************************************************************)
EXTENDS Integers, Sequences, FiniteSets, TLC

\* ---------------------------------------------------------------- constants
MAX_CP == 17
MAX_SLOTS == 15
START_IDX == 17
FINISH_IDX == 18
\* Sentinel of an unpopulated dp cell; every reachable time is far below it.
INF_TIME == 1000000000
\* parent sentinels
UNVISITED == -2
FROM_START == -1
\* width of the position field of a packed parent: (mask << 5) | i
POS_BITS == 5

\* ------------------------------------------------------------------- bounds
TicksPerMinute == 2
MaxCP == 3
MaxSlots == 3

\* default event values named in the comments of SolverInput
DefaultStart == 600
DefaultDwell == 7

\* (float)x of an int number of minutes
Minutes(m) == m * TicksPerMinute
\* (int)t of a float number of minutes (t >= 0): truncation
Whole(t) == t \div TicksPerMinute

Pow2(n) == 2 ^ n
\* mask & (1 << b)
BitSet(mask, b) == (mask \div Pow2(b)) % 2 = 1

RECURSIVE popcount(_)
popcount(x) == IF x = 0 THEN 0 ELSE (x % 2) + popcount(x \div 2)

Max2(a, b) == IF a > b THEN a ELSE b
MinOf(S) == CHOOSE x \in S : \A y \in S : x <= y

\* ------------------------------------------------------- time-slot arithmetic
arrival_to_slot_index(arrival_minutes, in) ==
    IF arrival_minutes < Minutes(in.slot_starts[0]) THEN -1
    ELSE LET whole == Whole(arrival_minutes)
             h == whole \div 60
             m == whole % 60
             slot_time == h * 60 + (IF m > 30 THEN 30 ELSE 0)
             hits == {s \in 0..(in.n_slots - 1) : in.slot_starts[s] = slot_time}
         IN  IF slot_time > in.slot_starts[in.n_slots - 1] THEN in.n_slots - 1
             ELSE IF hits # {} THEN MinOf(hits)
             ELSE -1

\* --------------------------------------------------------- feasibility oracle
\* -1.0f
NO_TIME == Minutes(-1)

find_next_open_time_nowait(cp_idx, arrival_minutes, in) ==
    LET slot0 == arrival_to_slot_index(arrival_minutes, in)
        slot == IF slot0 < 0 THEN 0 ELSE slot0
        open == {s \in slot..(in.n_slots - 1) : in.open_at[cp_idx][s]}
    IN  IF open = {} THEN NO_TIME
        ELSE arrival_minutes

find_next_open_time(cp_idx, arrival_minutes, in) ==
    LET slot0 == arrival_to_slot_index(arrival_minutes, in)
        slot == IF slot0 < 0 THEN 0 ELSE slot0
        open == {s \in slot..(in.n_slots - 1) : in.open_at[cp_idx][s]}
    IN  IF open = {} THEN NO_TIME
        ELSE Max2(arrival_minutes, Minutes(in.slot_starts[MinOf(open)]))

can_reach_finish(current_time, current_idx, in) ==
    LET t_to_finish == in.travel_time[current_idx][FINISH_IDX]
        finish_arrival == current_time + t_to_finish
        slot == arrival_to_slot_index(finish_arrival, in)
    IN  IF finish_arrival > Minutes(in.end_time) THEN FALSE
        ELSE IF slot < 0 \/ slot >= in.n_slots THEN FALSE
        ELSE \E s \in slot..(in.n_slots - 1) :
                /\ in.finish_open[s]
                /\ Max2(finish_arrival, Minutes(in.slot_starts[s])) <= Minutes(in.end_time)

\* ------------------------------------------------------------------- inputs
\* half a minute, a whole minute and more than the window
Near == Max2(1, TicksPerMinute \div 2)
Mid == Minutes(25)
Far == Minutes(200)

Nodes(n) == (0..(n - 1)) \cup {START_IDX, FINISH_IDX}
\* the entries of travel_time that solve reads
Edges(n) == {<<START_IDX, c>> : c \in 0..(n - 1)}
            \cup {e \in (0..(n - 1)) \X (0..(n - 1)) : e[1] # e[2]}
            \cup {<<c, FINISH_IDX>> : c \in 0..(n - 1)}
NoEdge == <<FINISH_IDX, START_IDX>>

\* a travel matrix: Near everywhere, one edge of Mid and one edge of Far at most
TravelMatrix(n, slow, cut) ==
    [u \in Nodes(n) |-> [v \in Nodes(n) |->
        IF <<u, v>> = cut THEN Far
        ELSE IF <<u, v>> = slow THEN Mid
        ELSE IF u = v THEN 0 ELSE Near]]

TravelMatrices(n) ==
    {TravelMatrix(n, slow, cut) :
        slow \in Edges(n) \cup {NoEdge}, cut \in Edges(n) \cup {NoEdge}}

SlotMinutes == {DefaultStart + 30 * k : k \in 0..(MaxSlots - 1)}

RECURSIVE SortedSeq(_)
SortedSeq(S) == IF S = {} THEN << >>
                ELSE LET x == MinOf(S) IN <<x>> \o SortedSeq(S \ {x})

\* slot_starts as a 0-based array
ArrayOf(seq) == [s \in 0..(Len(seq) - 1) |-> seq[s + 1]]

\* strictly increasing multiples of 30, MaxSlots - 1 or MaxSlots of them
Schedules ==
    {ArrayOf(SortedSeq(S)) :
        S \in {X \in SUBSET SlotMinutes : Cardinality(X) \in {MaxSlots - 1, MaxSlots} \ {0}}}

\* opening tables: row FINISH_IDX is finish_open.  Everything open, except one
\* row that is closed before slot k (lo) or from slot k on (hi).
Rows(n) == (0..(n - 1)) \cup {FINISH_IDX}
NoRow == START_IDX
Closures(n, M) ==
    {<<NoRow, 0, 0>>}
    \cup {<<r, 0, k>> : r \in Rows(n), k \in 1..M}
    \cup {<<r, k, M>> : r \in Rows(n), k \in 1..(M - 1)}
OpenTable(n, M, cl) ==
    [r \in Rows(n) |-> [s \in 0..(M - 1) |-> ~(r = cl[1] /\ cl[2] <= s /\ s < cl[3])]]

\* <<dwell, end_time>>: a short event without dwell, a long one with the default
Events == {<<0, DefaultStart + 45>>, <<DefaultDwell, DefaultStart + 90>>}

MakeInput(n, sched, tt, tab, dw, et) ==
    [n_checkpoints |-> n,
     n_slots       |-> Cardinality(DOMAIN sched),
     travel_time   |-> tt,
     open_at       |-> [c \in 0..(n - 1) |-> tab[c]],
     finish_open   |-> tab[FINISH_IDX],
     slot_starts   |-> sched,
     dwell         |-> dw,
     start_time    |-> DefaultStart,
     end_time      |-> et]

\* ---------------------------------------------------------------- the state
VARIABLES
    input,              \* SolverInput
    dp, parent,         \* the two dense arrays, indexed by idx(mask, pos)
    masks_by_pc,        \* buckets of masks by popcount
    phase,              \* where solve is
    pc, mpos, pos_i, pos_j,   \* the loop counters of the DP fill
    scan_mask,          \* loop counter of the objective scan
    best_count, best_finish_time, best_mask, best_last,
    route_buf, cur_mask, cur_pos,
    chain_broken,       \* LOGE("Parent chain broken ...") was written
    result,             \* SolverResult
    prior,              \* input and result of the solve before this one, if any
    ask_arrival, ask_slot, ask_open    \* a direct call of the two oracle functions

vars == <<input, dp, parent, masks_by_pc, phase, pc, mpos, pos_i, pos_j, scan_mask,
          best_count, best_finish_time, best_mask, best_last,
          route_buf, cur_mask, cur_pos, chain_broken, result,
          prior, ask_arrival, ask_slot, ask_open>>

\* what the steps of solve leave alone
host_vars == <<prior, ask_arrival, ask_slot, ask_open>>
solver_vars == <<dp, parent, masks_by_pc, pc, mpos, pos_i, pos_j, scan_mask,
                 best_count, best_finish_time, best_mask, best_last,
                 route_buf, cur_mask, cur_pos, chain_broken, result>>

N == input.n_checkpoints
total_states == Pow2(N) * N
idx(mask, pos) == mask * N + pos

NoPrior == [count |-> -1]

\* the state in which solve(in, result) starts: result is zeroed by the caller
SolveStart(in) ==
    /\ input = in
    /\ dp = [si \in 0..(Pow2(in.n_checkpoints) * in.n_checkpoints - 1) |-> INF_TIME]
    /\ parent = [si \in 0..(Pow2(in.n_checkpoints) * in.n_checkpoints - 1) |-> UNVISITED]
    /\ masks_by_pc = [k \in 0..in.n_checkpoints |-> << >>]
    /\ pc = 1 /\ mpos = 1 /\ pos_i = 0 /\ pos_j = 0
    /\ scan_mask = 1
    /\ best_count = -1 /\ best_finish_time = INF_TIME /\ best_mask = -1 /\ best_last = -1
    /\ route_buf = << >> /\ cur_mask = -1 /\ cur_pos = -1
    /\ chain_broken = FALSE
    /\ result = [count |-> 0, route |-> << >>, route_length |-> 0, finish_time |-> 0]

Init ==
    /\ \E n \in 1..MaxCP, sched \in Schedules :
         \E tt \in TravelMatrices(n), cl \in Closures(n, Cardinality(DOMAIN sched)),
            ev \in Events :
           SolveStart(MakeInput(n, sched, tt,
                                OpenTable(n, Cardinality(DOMAIN sched), cl), ev[1], ev[2]))
    /\ phase = "init"
    /\ prior = NoPrior
    /\ ask_arrival = 0 /\ ask_slot = -1 /\ ask_open = NO_TIME

\* ------------------------------------------- initialization from Start (128-142)
InitStep ==
    /\ phase = "init"
    /\ pos_j < N
    /\ LET j == pos_j
           arr == Minutes(input.start_time) + input.travel_time[START_IDX][j]
           open_time == find_next_open_time(j, arr, input)
           depart_j == open_time + Minutes(input.dwell)
           si == idx(Pow2(j), j)
           write == /\ ~(open_time < 0)
                    /\ ~(depart_j > Minutes(input.end_time))
                    /\ can_reach_finish(depart_j, j, input)
                    /\ depart_j < dp[si]
       IN  /\ dp' = IF write THEN [dp EXCEPT ![si] = depart_j] ELSE dp
           /\ parent' = IF write THEN [parent EXCEPT ![si] = FROM_START] ELSE parent
    /\ pos_j' = pos_j + 1
    /\ UNCHANGED <<input, masks_by_pc, phase, pc, mpos, pos_i, scan_mask,
                   best_count, best_finish_time, best_mask, best_last,
                   route_buf, cur_mask, cur_pos, chain_broken, result>>
    /\ UNCHANGED host_vars

RECURSIVE SortOnly(_)
SortOnly(seq) ==
    IF seq = << >> THEN << >>
    ELSE LET k == CHOOSE a \in 1..Len(seq) : \A b \in 1..Len(seq) : seq[a] <= seq[b]
         IN  <<seq[k]>> \o SortOnly(SubSeq(seq, 1, k - 1) \o SubSeq(seq, k + 1, Len(seq)))

\* sort + unique of a bucket
SortUnique(seq) == SortedSeq({seq[k] : k \in 1..Len(seq)})

\* masks_by_pc[1] (147-158)
Collect ==
    /\ phase = "init"
    /\ pos_j = N
    /\ LET pushed == SortedSeq({c \in 0..(N - 1) : dp[idx(Pow2(c), c)] < INF_TIME})
       IN  masks_by_pc' = [masks_by_pc EXCEPT
               ![1] = SortUnique([k \in 1..Len(pushed) |-> Pow2(pushed[k])])]
    /\ phase' = "fill"
    /\ pc' = 1 /\ mpos' = 1 /\ pos_i' = 0 /\ pos_j' = 0
    /\ UNCHANGED <<input, dp, parent, scan_mask,
                   best_count, best_finish_time, best_mask, best_last,
                   route_buf, cur_mask, cur_pos, chain_broken, result>>
    /\ UNCHANGED host_vars

\* ------------------------------------------------------ main DP loop (161-202)
\* the loop counters after the body of iteration (mp, i, j): j, then i, then the
\* next mask of the bucket
AfterJ(mp, i, j) ==
    IF j + 1 < N THEN <<mp, i, j + 1>>
    ELSE IF i + 1 < N THEN <<mp, i + 1, 0>>
    ELSE <<mp + 1, 0, 0>>
AfterI(mp, i) ==
    IF i + 1 < N THEN <<mp, i + 1, 0>> ELSE <<mp + 1, 0, 0>>

InBucket == phase = "fill" /\ pc < N /\ mpos <= Len(masks_by_pc[pc])
CurMask == masks_by_pc[pc][mpos]

\* lines 164 and 166: position i is not in the mask, or its cell is unpopulated
FillSkip ==
    /\ InBucket
    /\ ~(BitSet(CurMask, pos_i) /\ dp[idx(CurMask, pos_i)] < INF_TIME)
    /\ LET nx == AfterI(mpos, pos_i)
       IN  mpos' = nx[1] /\ pos_i' = nx[2] /\ pos_j' = nx[3]
    /\ UNCHANGED <<input, dp, parent, masks_by_pc, phase, pc, scan_mask,
                   best_count, best_finish_time, best_mask, best_last,
                   route_buf, cur_mask, cur_pos, chain_broken, result>>
    /\ UNCHANGED host_vars

Relaxes_noprune(mask, i, j) ==
    LET depart_i == dp[idx(mask, i)]
        arr_j == depart_i + input.travel_time[i][j]
        open_time == find_next_open_time(j, arr_j, input)
        depart_j == open_time + Minutes(input.dwell)
        new_mask == mask + Pow2(j)
    IN  /\ ~BitSet(mask, j)
        /\ ~(arr_j > Minutes(input.end_time))
        /\ ~(open_time < 0)
        /\ ~(depart_j > Minutes(input.end_time))
        /\ depart_j < dp[idx(new_mask, j)]

\* does the extension (mask, i) -> j write dp[new_mask, j] (lines 171-182)
Relaxes(mask, i, j) ==
    LET depart_i == dp[idx(mask, i)]
        arr_j == depart_i + input.travel_time[i][j]
        open_time == find_next_open_time(j, arr_j, input)
        depart_j == open_time + Minutes(input.dwell)
        new_mask == mask + Pow2(j)
    IN  /\ ~BitSet(mask, j)
        /\ ~(arr_j > Minutes(input.end_time))
        /\ ~(open_time < 0)
        /\ ~(depart_j > Minutes(input.end_time))
        /\ can_reach_finish(depart_j, j, input)
        /\ depart_j < dp[idx(new_mask, j)]

DepartVia_nodwell(mask, i, j) ==
    find_next_open_time(j, dp[idx(mask, i)] + input.travel_time[i][j], input)

DepartVia(mask, i, j) ==
    find_next_open_time(j, dp[idx(mask, i)] + input.travel_time[i][j], input)
        + Minutes(input.dwell)

\* (mask << 5) | i, and its two halves
PackParent_shift4(mask, i) == mask * Pow2(POS_BITS - 1) + i

PackParent(mask, i) == mask * Pow2(POS_BITS) + i
UnpackPos(p) == p % Pow2(POS_BITS)
UnpackMask(p) == p \div Pow2(POS_BITS)

\* one iteration of the loop over j (170-192)
FillExtend ==
    /\ InBucket
    /\ BitSet(CurMask, pos_i)
    /\ dp[idx(CurMask, pos_i)] < INF_TIME
    /\ LET mask == CurMask
           i == pos_i
           j == pos_j
           new_mask == mask + Pow2(j)
           new_si == idx(new_mask, j)
           nx == AfterJ(mpos, pos_i, pos_j)
       IN  /\ IF Relaxes(mask, i, j)
              THEN /\ dp' = [dp EXCEPT ![new_si] = DepartVia(mask, i, j)]
                   /\ parent' = [parent EXCEPT ![new_si] = PackParent(mask, i)]
                   /\ masks_by_pc' = [masks_by_pc EXCEPT ![pc + 1] = Append(@, new_mask)]
              ELSE UNCHANGED <<dp, parent, masks_by_pc>>
           /\ mpos' = nx[1] /\ pos_i' = nx[2] /\ pos_j' = nx[3]
    /\ UNCHANGED <<input, phase, pc, scan_mask,
                   best_count, best_finish_time, best_mask, best_last,
                   route_buf, cur_mask, cur_pos, chain_broken, result>>
    /\ UNCHANGED host_vars

\* the bucket is exhausted: deduplicate the next one (195-201), pc++
FillNextBucket ==
    /\ phase = "fill" /\ pc < N
    /\ mpos > Len(masks_by_pc[pc])
    /\ masks_by_pc' = IF pc + 1 <= N
                      THEN [masks_by_pc EXCEPT ![pc + 1] = SortUnique(@)]
                      ELSE masks_by_pc
    /\ pc' = pc + 1
    /\ mpos' = 1 /\ pos_i' = 0 /\ pos_j' = 0
    /\ UNCHANGED <<input, dp, parent, phase, scan_mask,
                   best_count, best_finish_time, best_mask, best_last,
                   route_buf, cur_mask, cur_pos, chain_broken, result>>
    /\ UNCHANGED host_vars

\* pc = N: the loop ends, the scan starts (205-210)
FillExit ==
    /\ phase = "fill" /\ ~(pc < N)
    /\ phase' = "scan"
    /\ best_count' = -1 /\ best_finish_time' = INF_TIME
    /\ best_mask' = -1 /\ best_last' = -1
    /\ scan_mask' = 1 /\ pos_i' = 0
    /\ UNCHANGED <<input, dp, parent, masks_by_pc, pc, mpos, pos_j,
                   route_buf, cur_mask, cur_pos, chain_broken, result>>
    /\ UNCHANGED host_vars

\* ------------------------------------------------------ objective scan (210-240)
actual_finish_of_nowait(value, i) ==
    LET finish_arr == value + input.travel_time[i][FINISH_IDX]
        fslot == arrival_to_slot_index(finish_arr, input)
        open == {s \in fslot..(input.n_slots - 1) : s >= 0 /\ input.finish_open[s]}
    IN  IF finish_arr > Minutes(input.end_time) THEN NO_TIME
        ELSE IF fslot < 0 \/ open = {} THEN NO_TIME
        ELSE finish_arr

\* lines 216-230 for the cell si of position i: the finish minute, or NO_TIME
\* when the cell is discarded
actual_finish_of(value, i) ==
    LET finish_arr == value + input.travel_time[i][FINISH_IDX]
        fslot == arrival_to_slot_index(finish_arr, input)
        open == {s \in fslot..(input.n_slots - 1) : s >= 0 /\ input.finish_open[s]}
        actual_finish == IF open = {} THEN NO_TIME
                         ELSE Max2(finish_arr, Minutes(input.slot_starts[MinOf(open)]))
    IN  IF finish_arr > Minutes(input.end_time) THEN NO_TIME
        ELSE IF fslot < 0 THEN NO_TIME
        ELSE IF actual_finish < 0 \/ actual_finish > Minutes(input.end_time) THEN NO_TIME
        ELSE actual_finish

\* line 232-233
Better(count, actual_finish) ==
    \/ count > best_count
    \/ count = best_count /\ actual_finish < best_finish_time

ScanStep ==
    /\ phase = "scan"
    /\ scan_mask < Pow2(N)
    /\ LET mask == scan_mask
           i == pos_i
           count == popcount(mask)
           si == idx(mask, i)
           actual_finish == actual_finish_of(dp[si], i)
           take == /\ dp[si] < INF_TIME
                   /\ actual_finish # NO_TIME
                   /\ Better(count, actual_finish)
       IN  /\ best_count' = IF take THEN count ELSE best_count
           /\ best_finish_time' = IF take THEN actual_finish ELSE best_finish_time
           /\ best_mask' = IF take THEN mask ELSE best_mask
           /\ best_last' = IF take THEN i ELSE best_last
    /\ IF pos_i + 1 < N
       THEN pos_i' = pos_i + 1 /\ scan_mask' = scan_mask
       ELSE pos_i' = 0 /\ scan_mask' = scan_mask + 1
    /\ UNCHANGED <<input, dp, parent, masks_by_pc, phase, pc, mpos, pos_j,
                   route_buf, cur_mask, cur_pos, chain_broken, result>>
    /\ UNCHANGED host_vars

\* no feasible route (242-248)
NoRoute ==
    /\ phase = "scan"
    /\ scan_mask = Pow2(N)
    /\ best_count < 0
    /\ result' = [result EXCEPT !.count = 0, !.route_length = 0, !.finish_time = 0]
    /\ phase' = "done"
    /\ UNCHANGED <<input, dp, parent, masks_by_pc, pc, mpos, pos_i, pos_j, scan_mask,
                   best_count, best_finish_time, best_mask, best_last,
                   route_buf, cur_mask, cur_pos, chain_broken>>
    /\ UNCHANGED host_vars

\* ------------------------------------------------- reconstruction (250-281)
BeginReconstruct ==
    /\ phase = "scan"
    /\ scan_mask = Pow2(N)
    /\ ~(best_count < 0)
    /\ route_buf' = << >>
    /\ cur_mask' = best_mask
    /\ cur_pos' = best_last
    /\ phase' = "reconstruct"
    /\ UNCHANGED <<input, dp, parent, masks_by_pc, pc, mpos, pos_i, pos_j, scan_mask,
                   best_count, best_finish_time, best_mask, best_last,
                   chain_broken, result>>
    /\ UNCHANGED host_vars

\* one iteration of while (true) (256-273)
ReconstructStep ==
    /\ phase = "reconstruct"
    /\ route_buf' = Append(route_buf, cur_pos)
    /\ LET p == parent[idx(cur_mask, cur_pos)]
       IN  IF p = FROM_START
           THEN /\ phase' = "emit"
                /\ UNCHANGED <<cur_mask, cur_pos, chain_broken>>
           ELSE IF p = UNVISITED
           THEN /\ phase' = "emit"
                /\ chain_broken' = TRUE
                /\ UNCHANGED <<cur_mask, cur_pos>>
           ELSE /\ cur_pos' = UnpackPos(p)
                /\ cur_mask' = UnpackMask(p)
                /\ UNCHANGED <<phase, chain_broken>>
    /\ UNCHANGED <<input, dp, parent, masks_by_pc, pc, mpos, pos_i, pos_j, scan_mask,
                   best_count, best_finish_time, best_mask, best_last, result>>
    /\ UNCHANGED host_vars

Reverse(seq) == [k \in 1..Len(seq) |-> seq[Len(seq) + 1 - k]]

\* the result, the route reversed (275-281)
Emit ==
    /\ phase = "emit"
    /\ result' = [count |-> best_count,
                  route |-> Reverse(route_buf),
                  route_length |-> Len(route_buf),
                  finish_time |-> best_finish_time]
    /\ phase' = "done"
    /\ UNCHANGED <<input, dp, parent, masks_by_pc, pc, mpos, pos_i, pos_j, scan_mask,
                   best_count, best_finish_time, best_mask, best_last,
                   route_buf, cur_mask, cur_pos, chain_broken>>
    /\ UNCHANGED host_vars

Next ==
    \/ InitStep \/ Collect
    \/ FillSkip \/ FillExtend \/ FillNextBucket \/ FillExit
    \/ ScanStep \/ NoRoute
    \/ BeginReconstruct \/ ReconstructStep \/ Emit

Spec == Init /\ [][Next]_vars

\* --------------------------------------------- a second solve of a relaxed input
\* B differs from A in one cell: a closed slot opened, or a travel time lowered
Relaxations(A) ==
    {[A EXCEPT !.open_at[cs[1]][cs[2]] = TRUE] :
        cs \in {x \in (0..(A.n_checkpoints - 1)) \X (0..(A.n_slots - 1)) :
                    ~A.open_at[x[1]][x[2]]}}
    \cup {[A EXCEPT !.finish_open[s] = TRUE] :
        s \in {x \in 0..(A.n_slots - 1) : ~A.finish_open[x]}}
    \cup {[A EXCEPT !.travel_time[ew[1][1]][ew[1][2]] = ew[2]] :
        ew \in {x \in Edges(A.n_checkpoints) \X {Near, Mid} :
                    x[2] < A.travel_time[x[1][1]][x[1][2]]}}

\* the host solves A, then a relaxation B of A
Relax ==
    /\ phase = "done"
    /\ prior = NoPrior
    /\ prior' = [count |-> result.count, finish_time |-> result.finish_time]
    /\ \E B \in Relaxations(input) :
        /\ input' = B
        /\ dp' = [si \in DOMAIN dp |-> INF_TIME]
        /\ parent' = [si \in DOMAIN parent |-> UNVISITED]
        /\ masks_by_pc' = [k \in DOMAIN masks_by_pc |-> << >>]
    /\ phase' = "init"
    /\ pc' = 1 /\ mpos' = 1 /\ pos_i' = 0 /\ pos_j' = 0
    /\ scan_mask' = 1
    /\ best_count' = -1 /\ best_finish_time' = INF_TIME /\ best_mask' = -1 /\ best_last' = -1
    /\ route_buf' = << >> /\ cur_mask' = -1 /\ cur_pos' = -1
    /\ chain_broken' = FALSE
    /\ result' = [count |-> 0, route |-> << >>, route_length |-> 0, finish_time |-> 0]
    /\ UNCHANGED <<ask_arrival, ask_slot, ask_open>>

RelaxInit == Init /\ input.n_checkpoints < MaxCP

RelaxNext == Next \/ Relax

RelaxSpec == RelaxInit /\ [][RelaxNext]_vars

\* ------------------------------------------- the two oracle functions, called alone
\* every strictly increasing schedule of multiples of 30 over SlotMinutes
AllSchedules ==
    {ArrayOf(SortedSeq(S)) : S \in (SUBSET SlotMinutes) \ {{}}}

AskTicks == Minutes(DefaultStart - 10)..Minutes(DefaultStart + 30 * MaxSlots + 45)

OracleInit ==
    /\ \E sched \in AllSchedules :
         \E row \in [0..(Cardinality(DOMAIN sched) - 1) -> BOOLEAN] :
           SolveStart(MakeInput(1, sched, TravelMatrix(1, NoEdge, NoEdge),
                                [r \in Rows(1) |-> row], DefaultDwell, DefaultStart + 90))
    /\ phase = "ask"
    /\ prior = NoPrior
    /\ ask_arrival \in AskTicks
    /\ ask_slot = -1 /\ ask_open = NO_TIME

AskSlot ==
    /\ phase = "ask"
    /\ ask_slot' = arrival_to_slot_index(ask_arrival, input)
    /\ phase' = "asked_slot"
    /\ UNCHANGED <<input, solver_vars, prior, ask_arrival, ask_open>>

AskOpen ==
    /\ phase = "asked_slot"
    /\ ask_open' = find_next_open_time(0, ask_arrival, input)
    /\ phase' = "asked"
    /\ UNCHANGED <<input, solver_vars, prior, ask_arrival, ask_slot>>

OracleNext == AskSlot \/ AskOpen

OracleSpec == OracleInit /\ [][OracleNext]_vars

\* =================================================================== claims
\* the canonical slot minute of section 4.1: 60*(floor(t) div 60) + (30 if
\* floor(t) mod 60 > 30 else 0)
Canonical(t) ==
    60 * (Whole(t) \div 60) + (IF Whole(t) % 60 > 30 THEN 30 ELSE 0)
LastSlot == input.n_slots - 1
SlotAnswered == phase \in {"asked_slot", "asked"}

\* C7 (as stated): on every strictly increasing schedule of multiples of 30 and
\* every t >= slot_starts[0], arrival_to_slot_index returns an index in [0, M):
\* the s with slot_starts[s] = canonical, or M-1 when canonical exceeds the last
\* slot start; it returns -1 only when t < slot_starts[0].
C7_SlotTotal ==
    SlotAnswered =>
        /\ ask_arrival >= Minutes(input.slot_starts[0]) =>
              /\ ask_slot \in 0..LastSlot
              /\ IF Canonical(ask_arrival) > input.slot_starts[LastSlot]
                 THEN ask_slot = LastSlot
                 ELSE input.slot_starts[ask_slot] = Canonical(ask_arrival)
        /\ ask_slot = -1 => ask_arrival < Minutes(input.slot_starts[0])

\* clamped start of the upward scan of find_next_open_time
ScanFrom == IF ask_slot < 0 THEN 0 ELSE ask_slot
OpenSlotsFrom(s0) == {s \in s0..LastSlot : input.open_at[0][s]}
\* checkpoint 0 is open at minute u when open[0, slot_of(u)] is true
OpenAtMinute(u) ==
    LET sl == arrival_to_slot_index(u, input)
    IN  sl >= 0 /\ input.open_at[0][sl]
\* the minutes from t on that can differ in slot: past the last slot start
\* plus an hour every minute has slot M-1
MinutesFrom(t) == t..Max2(t, Minutes(input.slot_starts[LastSlot] + 61))

\* The schedule lists every half hour from a first slot on the hour: then the
\* canonical minute of every t >= slot_starts[0] is a listed slot start or lies
\* past the last one, and slot_of is defined as section 4.1 takes it to be.
EveryHalfHourListed ==
    /\ input.slot_starts[0] % 60 = 0
    /\ \A s \in 1..LastSlot : input.slot_starts[s] = input.slot_starts[s - 1] + 30

\* C8 (as stated, on the schedules where slot_of is defined for every minute):
\* find_next_open_time returns the earliest minute u >= t_arrive at which the
\* checkpoint is open, open at u meaning open[c, slot_of(u)], and -1 only when
\* there is no such minute; the value is max(t_arrive, slot_starts[s]) for the
\* first open s from slot_of(t_arrive) (0 if none) on.
C8_EarliestOpenMinute ==
    (phase = "asked" /\ EveryHalfHourListed) =>
        LET cand == {u \in MinutesFrom(ask_arrival) : OpenAtMinute(u)}
        IN  /\ ask_open = NO_TIME <=> cand = {}
            /\ cand # {} => ask_open = MinOf(cand)
            /\ OpenSlotsFrom(ScanFrom) # {} =>
                  ask_open = Max2(ask_arrival,
                                  Minutes(input.slot_starts[MinOf(OpenSlotsFrom(ScanFrom))]))

\* C8 (amended): find_next_open_time returns -1 exactly when no slot from
\* slot_of(t_arrive) (0 if none) on is open for the checkpoint; otherwise the
\* value is t_arrive or the start of an open slot of that range, whichever is
\* later, and no open slot of the range gives an earlier minute.  Arrival 610
\* with slot 600 closed and slot 630 open gives 630.
C8_FirstOpenSlotWait ==
    phase = "asked" =>
        /\ ask_open = NO_TIME <=> OpenSlotsFrom(ScanFrom) = {}
        /\ ask_open # NO_TIME =>
              /\ ask_open >= ask_arrival
              /\ \E s \in OpenSlotsFrom(ScanFrom) :
                    ask_open = Max2(ask_arrival, Minutes(input.slot_starts[s]))
              /\ \A s \in OpenSlotsFrom(ScanFrom) :
                    ask_open <= Max2(ask_arrival, Minutes(input.slot_starts[s]))
        /\ ( /\ ask_arrival = Minutes(610)
             /\ input.n_slots >= 2
             /\ input.slot_starts[0] = 600 /\ input.slot_starts[1] = 630
             /\ ~input.open_at[0][0] /\ input.open_at[0][1] )
           => ask_open = Minutes(630)

\* the forced wait of the example: arrival 610, slot 600 closed, slot 630 open
C8_Witness ==
    /\ phase = "asked"
    /\ ask_arrival = Minutes(610)
    /\ input.n_slots >= 2
    /\ input.slot_starts[0] = 600 /\ input.slot_starts[1] = 630
    /\ ~input.open_at[0][0] /\ input.open_at[0][1]
    /\ ask_open = Minutes(630)

\* ------------------------------------------------ routes and their replay
\* every sequence of distinct checkpoints
Routes ==
    {r \in UNION {[1..k -> 0..(N - 1)] : k \in 1..N} :
        \A a, b \in DOMAIN r : a # b => r[a] # r[b]}

\* departure from the k-th stop of the replay of section 8: arr = previous
\* departure + T[prev, c], open = earliest_open(c, arr), dep = open + dwell;
\* NO_TIME when some open is undefined or some dep exceeds end_time
RECURSIVE ReplayDepart(_, _)
ReplayDepart(r, k) ==
    IF k = 0 THEN Minutes(input.start_time)
    ELSE LET before == ReplayDepart(r, k - 1)
             prev == IF k = 1 THEN START_IDX ELSE r[k - 1]
             arr == before + input.travel_time[prev][r[k]]
             opens == find_next_open_time(r[k], arr, input)
             dep == opens + Minutes(input.dwell)
         IN  IF before = NO_TIME \/ opens < 0 \/ dep > Minutes(input.end_time)
             THEN NO_TIME ELSE dep

\* the minute at Finish of a departure dep from checkpoint c: max(t_f,
\* slot_starts[s]) for the first Finish-open slot s >= slot_of(t_f); NO_TIME
\* when slot_of(t_f) is none or no such slot is open
FinishFrom(dep, c) ==
    LET t_f == dep + input.travel_time[c][FINISH_IDX]
        fs == arrival_to_slot_index(t_f, input)
        open == {s \in fs..LastSlot : s >= 0 /\ input.finish_open[s]}
    IN  IF fs < 0 \/ open = {} THEN NO_TIME
        ELSE Max2(t_f, Minutes(input.slot_starts[MinOf(open)]))

FinishMinute(r) ==
    LET dep == ReplayDepart(r, Len(r))
    IN  IF dep = NO_TIME THEN NO_TIME ELSE FinishFrom(dep, r[Len(r)])

Feasible(r) ==
    FinishMinute(r) # NO_TIME /\ FinishMinute(r) <= Minutes(input.end_time)

Done == phase = "done"
Populated(mask, i) == dp[idx(mask, i)] < INF_TIME
Masks == 0..(Pow2(N) - 1)
Positions == 0..(N - 1)

\* C1 (as stated, on the schedules where slot_of is defined for every minute):
\* no feasible route visits strictly more checkpoints than result.count.
C1_CoverageOptimal ==
    (Done /\ EveryHalfHourListed) =>
        \A r \in Routes : Feasible(r) => Len(r) <= result.count

\* C2 (as stated, on the schedules where slot_of is defined for every minute):
\* when count >= 1, no feasible route of exactly result.count checkpoints has a
\* Finish minute strictly smaller than result.finish_time.
C2_EarliestFinish ==
    (Done /\ EveryHalfHourListed /\ result.count >= 1) =>
        \A r \in Routes :
            (Feasible(r) /\ Len(r) = result.count) => FinishMinute(r) >= result.finish_time

\* C3: when count >= 1, the replay of result.route has every open defined and
\* every departure <= end_time, its last departure is the dp value of the
\* selected state, and finish_time is max(t_f, slot_starts[s]) for the first
\* Finish-open slot s >= slot_of(t_f).
C3_RouteReplays ==
    (Done /\ result.count >= 1) =>
        LET r == result.route
        IN  /\ Len(r) >= 1
            /\ \A k \in 1..Len(r) :
                  /\ ReplayDepart(r, k) # NO_TIME
                  /\ ReplayDepart(r, k) <= Minutes(input.end_time)
            /\ ReplayDepart(r, Len(r)) = dp[idx(best_mask, best_last)]
            /\ result.finish_time = FinishMinute(r)

\* a returned route of three stops whose walker waited for a slot to open and
\* whose finish minute is later than the arrival at Finish
C3_Witness ==
    /\ Done /\ result.count = 3
    /\ input.dwell > 0
    /\ \E k \in 1..3 :
          ReplayDepart(result.route, k) - Minutes(input.dwell)
            > ReplayDepart(result.route, k - 1)
              + input.travel_time[IF k = 1 THEN START_IDX ELSE result.route[k - 1]][result.route[k]]
    /\ result.finish_time = FinishMinute(result.route)

\* C4 (as stated, on the schedules where slot_of is defined for every minute):
\* when count >= 1, finish_time <= end_time and finish_open[slot_of(finish_time)]
\* holds; when count = 0, finish_time = 0 and the route is empty.
C4_FinishInOpenSlot ==
    (Done /\ EveryHalfHourListed) =>
        /\ result.count >= 1 =>
              /\ result.finish_time <= Minutes(input.end_time)
              /\ arrival_to_slot_index(result.finish_time, input) >= 0
              /\ input.finish_open[arrival_to_slot_index(result.finish_time, input)]
        /\ result.count = 0 =>
              /\ result.finish_time = 0
              /\ result.route_length = 0 /\ result.route = << >>

\* C4 (amended): when count >= 1, finish_time <= end_time and finish_time is at
\* or after the start of an open Finish slot s that is not before the slot of
\* finish_time (the slot slot_of assigns to finish_time may itself be closed:
\* a walker who waits for slot s finishes at slot_starts[s]); when count = 0,
\* finish_time = 0 and the route is empty.
C4_FinishAfterOpenSlotStart ==
    Done =>
        /\ result.count >= 1 =>
              /\ result.finish_time <= Minutes(input.end_time)
              /\ \E s \in 0..LastSlot :
                    /\ input.finish_open[s]
                    /\ Minutes(input.slot_starts[s]) <= result.finish_time
                    /\ arrival_to_slot_index(result.finish_time, input) <= s
        /\ result.count = 0 =>
              /\ result.finish_time = 0
              /\ result.route_length = 0 /\ result.route = << >>

\* a returned finish minute that was waited for: the slot of the arrival at
\* Finish is closed and finish_time is the start of the next open one
C4_Witness ==
    /\ Done /\ result.count >= 1
    /\ LET t_f == dp[idx(best_mask, best_last)] + input.travel_time[best_last][FINISH_IDX]
       IN  /\ ~input.finish_open[arrival_to_slot_index(t_f, input)]
           /\ result.finish_time > t_f
           /\ \E s \in 0..LastSlot :
                 input.finish_open[s] /\ result.finish_time = Minutes(input.slot_starts[s])

\* C5 (as stated): B relaxes A (openings supersets, travel times lower):
\* solve(B).count >= solve(A).count, and with equal counts >= 1
\* solve(B).finish_time <= solve(A).finish_time.
C5_MonotoneUnderRelaxation ==
    (Done /\ prior # NoPrior) =>
        /\ result.count >= prior.count
        /\ (result.count = prior.count /\ result.count >= 1) =>
              result.finish_time <= prior.finish_time

\* the checkpoints whose bits are set in a mask
BitsOf(mask) == {c \in Positions : BitSet(mask, c)}

\* C6: whenever solve returns, route has exactly count entries (route_length =
\* count), the entries are exactly the checkpoints of the selected mask, each
\* once, and reconstruction ends at the from-Start marker (-1) without ever
\* reading the unvisited sentinel (-2).
C6_RouteWellFormed ==
    /\ ~chain_broken
    /\ phase \in {"reconstruct", "emit"} =>
          /\ cur_mask \in Masks /\ cur_pos \in Positions
          /\ Len(route_buf) <= MAX_CP
    /\ phase = "reconstruct" => parent[idx(cur_mask, cur_pos)] # UNVISITED
    /\ phase = "emit" => parent[idx(cur_mask, cur_pos)] = FROM_START
    /\ Done =>
          /\ result.route_length = result.count
          /\ Len(result.route) = result.count
          /\ result.count >= 1 =>
                /\ {result.route[k] : k \in 1..Len(result.route)} = BitsOf(best_mask)
                /\ Cardinality(BitsOf(best_mask)) = result.count
                /\ result.route[Len(result.route)] = best_last

\* a returned route of every checkpoint, rebuilt through two packed parents
C6_Witness ==
    /\ Done /\ N = 3 /\ result.count = 3
    /\ parent[idx(best_mask, best_last)] >= 0
    /\ result.route[1] # 0

\* C9: every populated dp[S, i] has i in S, value <= end_time, parent # -2 and
\* can_reach_finish(dp[S, i], i); so the scan discards no populated entry, the
\* selected state can reach Finish, and count = 0 exactly when no entry was
\* ever populated.
C9_ForwardPruning ==
    /\ \A mask \in Masks, i \in Positions :
          Populated(mask, i) =>
              /\ BitSet(mask, i)
              /\ dp[idx(mask, i)] <= Minutes(input.end_time)
              /\ parent[idx(mask, i)] # UNVISITED
              /\ can_reach_finish(dp[idx(mask, i)], i, input)
              /\ actual_finish_of(dp[idx(mask, i)], i) # NO_TIME
    /\ (phase \in {"reconstruct", "emit", "done"} /\ best_count >= 0) =>
          /\ Populated(best_mask, best_last)
          /\ can_reach_finish(dp[idx(best_mask, best_last)], best_last, input)
    /\ Done =>
          (result.count = 0 <=> \A mask \in Masks, i \in Positions : ~Populated(mask, i))

\* the scan is over a table where an extension was pruned for Finish alone:
\* its departure was in time, yet no cell of the larger mask was written for it
C9_Witness ==
    /\ phase = "scan"
    /\ \E mask \in Masks, i \in Positions, j \in Positions :
          /\ Populated(mask, i) /\ ~BitSet(mask, j)
          /\ DepartVia(mask, i, j) >= Minutes(input.dwell)
          /\ DepartVia(mask, i, j) <= Minutes(input.end_time)
          /\ ~can_reach_finish(DepartVia(mask, i, j), j, input)
          /\ ~Populated(mask + Pow2(j), j)
    /\ \E mask \in Masks, i \in Positions : Populated(mask, i) /\ popcount(mask) >= 2

\* the cells an extension has read so far: those of the buckets done, of the
\* masks of this bucket done, and of this mask up to the loop counters
InSeq(x, seq) == \E k \in 1..Len(seq) : seq[k] = x
CellsRead ==
    IF phase = "init" THEN {}
    ELSE {si \in DOMAIN dp :
            LET mask == si \div N
                i == si % N
            IN  /\ dp[si] < INF_TIME
                /\ \/ phase # "fill"
                   \/ popcount(mask) < pc
                   \/ /\ pc < N
                      /\ \E m \in 1..Len(masks_by_pc[pc]) :
                            /\ masks_by_pc[pc][m] = mask
                            /\ \/ m < mpos
                               \/ m = mpos /\ i < pos_i
                               \/ m = mpos /\ i = pos_i /\ pos_j > 0}

\* buckets hold masks of their popcount; a bucket that is or was processed
\* holds each of its masks once, in order; once bucket 1 is collected every
\* mask with a populated cell is in the bucket of its popcount
C10_Buckets ==
    /\ \A k \in DOMAIN masks_by_pc : \A m \in 1..Len(masks_by_pc[k]) :
          popcount(masks_by_pc[k][m]) = k
    /\ phase # "init" =>
          /\ \A k \in DOMAIN masks_by_pc :
                (phase # "fill" \/ k <= pc) =>
                    \A m \in 1..(Len(masks_by_pc[k]) - 1) :
                        masks_by_pc[k][m] < masks_by_pc[k][m + 1]
          /\ \A mask \in Masks :
                (\E i \in Positions : Populated(mask, i)) =>
                    InSeq(mask, masks_by_pc[popcount(mask)])
          /\ phase = "fill" =>
                \A mask \in Masks : \A i \in Positions :
                    Populated(mask, i) => popcount(mask) <= pc + 1

\* a step writes only cells of popcount pc + 1 while bucket pc is processed
\* (popcount 1 during the initialization), never a cell that was read, and pc
\* never goes back
C10_Step ==
    /\ \A si \in DOMAIN dp :
          (dp'[si] # dp[si] \/ parent'[si] # parent[si]) =>
              \/ phase = "init" /\ popcount(si \div N) = 1
              \/ InBucket /\ popcount(si \div N) = pc + 1 /\ popcount(CurMask) = pc
    /\ \A si \in CellsRead : dp'[si] = dp[si] /\ parent'[si] = parent[si]
    /\ pc' >= pc

\* C10: masks are processed by increasing popcount; every write to a cell of
\* popcount pc+1 happens while bucket pc is processed, so a cell that an
\* extension has read is never written again; every mask with a populated
\* cell is in the bucket of its popcount, once after de-duplication, and is
\* processed before any of its supersets.
C10_FinalizedPredecessors == [](C10_Buckets) /\ [][C10_Step]_vars

\* the second cell of a three-checkpoint mask is being written over: the
\* bucket of popcount 3 already holds the mask, and holds it again after this
C10_Witness ==
    /\ InBucket /\ pc = 2
    /\ Len(masks_by_pc[3]) >= 2
    /\ BitSet(CurMask, pos_i) /\ Populated(CurMask, pos_i)
    /\ ~BitSet(CurMask, pos_j)
    /\ Populated(CurMask + Pow2(pos_j), pos_j)
    /\ Relaxes(CurMask, pos_i, pos_j)

====
